---------------------------- MODULE Spec2Model ----------------------------
(***************************************************************************)
(* State-machine model of server/lib/tax-forms.ts: the eligibility query,  *)
(* the choice of the admin to contact, the persistence of the legal        *)
(* document and the request flow sendHelloWorksUsTaxForm, one step per     *)
(* awaited call.                                                           *)
(***************************************************************************)
EXTENDS Integers, Sequences, FiniteSets, TLC

(***************************************************************************)
(* Bounds of the model.                                                    *)
(***************************************************************************)
\* Workflow instances the signature provider hands out in one behaviour.
MaxInstances == 2
\* Expense rows drawn for the contact-resolution specification.
MaxExpenses == 2

(***************************************************************************)
(* The world the functions run in: users, accounts, years.                 *)
(***************************************************************************)
Procs == {1, 2}
Years == {2019, 2020}
AccountIds == {10, 30, 102}
UserIds == {1, 2, 3, 4}
NoUser == 0

\* The accounts queries.getTaxFormsRequiredForAccounts can return for a year:
\* those paid in that year.
PayoutAccounts == [year \in Years |-> IF year = 2019 THEN AccountIds ELSE {10}]

InternalDomain == "opencollective.com"

\* models.User rows with their `collective` association (the user profile).
Users ==
  [u \in UserIds |->
     [id |-> u,
      email |-> [local |-> u,
                 domain |-> IF u \in {1, 3} THEN InternalDomain ELSE "example.org"],
      collective |-> [id |-> 100 + u]]]

\* account.getAdminUsers(): the admins of each account, in the loaded order.
\* 10 is an organization with three admins, 102 is the profile of user 2,
\* 30 has no admin at all; user 4 administers nothing.
AdminUserIds ==
  [a \in AccountIds |->
     CASE a = 10 -> <<1, 2, 3>>
       [] a = 102 -> <<2>>
       [] OTHER -> <<>>]

isEmailInternal(email) == email.domain = InternalDomain

LEGAL_DOCUMENT_TYPE == [US_TAX_FORM |-> "US_TAX_FORM"]
LEGAL_DOCUMENT_REQUEST_STATUS ==
  [NOT_REQUESTED |-> "NOT_REQUESTED", REQUESTED |-> "REQUESTED",
   RECEIVED |-> "RECEIVED", ERROR |-> "ERROR"]

(***************************************************************************)
(* Values: the `data` column is a map from key paths to values.            *)
(***************************************************************************)
EmptyData == [k \in {} |-> 0]
KeyInstance == "helloWorks.instance"
KeyDocumentLink == "helloWorks.documentLink"
KeyError == "error"

\* deepmerge of two maps: keys of both, the second one winning.
deepMerge(a, b) ==
  [k \in DOMAIN a \cup DOMAIN b |-> IF k \in DOMAIN b THEN b[k] ELSE a[k]]

NoInstance == [id |-> 0, steps |-> <<>>]
NoLink == [kind |-> "none", instanceId |-> 0]
NoError == [message |-> "", stack |-> ""]
NoDocument == [id |-> 0, data |-> EmptyData]

\* What the provider returns for a new instance: an id and its ordered steps.
NewInstance(id) ==
  [id |-> id,
   steps |-> <<[step |-> "step_1", url |-> [kind |-> "unauthenticated", instanceId |-> id]]>>]
AuthenticatedLink(id) == [kind |-> "authenticated", instanceId |-> id]

\* The errors the collaborators can raise, by the call that raises them.
ErrorAt(site) == [message |-> site, stack |-> site]

VARIABLES
  env,             \* config.env
  expenses,        \* models.Expense rows
  legalDocuments,  \* models.LegalDocument rows, by id (the position)
  instances,       \* the provider's workflow instances, as created
  emails,          \* the emails delivered by emailLib.send
  queue,           \* the accounts of the running batch pass still to be processed
  batchYear,       \* the year of the running batch pass
  pc,              \* each invocation's position in sendHelloWorksUsTaxForm
  flow,            \* each invocation's arguments and local variables
  call             \* the observed call of a function outside the flows, if any

vars == <<env, expenses, legalDocuments, instances, emails, queue, batchYear, pc, flow, call>>

\* No observed call.
NoCall == [fn |-> "none"]


(***************************************************************************)
(* Pure helpers over the tables.                                           *)
(***************************************************************************)
NoUserRecord == [id |-> NoUser, email |-> [local |-> 0, domain |-> ""], collective |-> [id |-> 0]]

Range(seq) == {seq[i] : i \in DOMAIN seq}
Min(S) == CHOOSE x \in S : \A y \in S : x <= y

\* legalDocument.shouldBeRequested(): a document is requested again when its
\* status is ERROR, or NOT_REQUESTED (rows carry no timestamps here: a
\* NOT_REQUESTED row only exists between findOrCreate and the update that
\* follows it).
shouldBeRequested(legalDocument) ==
  legalDocument.requestStatus \in
    {LEGAL_DOCUMENT_REQUEST_STATUS.NOT_REQUESTED, LEGAL_DOCUMENT_REQUEST_STATUS.ERROR}

\* The association without the restriction to the year.
legalDocumentsOf_AnyYear(collectiveId, year) ==
  {i \in DOMAIN legalDocuments : legalDocuments[i].CollectiveId = collectiveId}

\* The `legalDocuments` association of a collective, restricted to a year.
legalDocumentsOf(collectiveId, year) ==
  {i \in DOMAIN legalDocuments :
     /\ legalDocuments[i].CollectiveId = collectiveId
     /\ legalDocuments[i].year = year}

\* The load issued whatever the ids.
CollectiveFindAllIsCalled_Always(collectiveIds) ==
  TRUE

\* Lines 21-25: models.Collective.findAll is reached unless the ids are empty.
CollectiveFindAllIsCalled(collectiveIds) ==
  collectiveIds # {}

\* The eligibility query without its filter on the documents.
findAccountsThatNeedToBeSentTaxForm_Unfiltered(collectiveIds, year) ==
  AccountIds \cap collectiveIds

\* The eligibility query returning only the accounts without a document.
findAccountsThatNeedToBeSentTaxForm_OnlyNew(collectiveIds, year) ==
  {id \in AccountIds \cap collectiveIds : legalDocumentsOf(id, year) = {}}

\* findAccountsThatNeedToBeSentTaxForm, given the result of
\* queries.getTaxFormsRequiredForAccounts(null, year).
findAccountsThatNeedToBeSentTaxForm(collectiveIds, year) ==
  IF collectiveIds = {}
    THEN {}
    ELSE {id \in AccountIds \cap collectiveIds :
            \/ legalDocumentsOf(id, year) = {}
            \/ \E i \in legalDocumentsOf(id, year) : shouldBeRequested(legalDocuments[i])}

isInternalUser(user) == isEmailInternal(user.email)

\* The admins of the account whatever the environment.
getAdminsForAccount_Unfiltered(account) ==
  [i \in DOMAIN AdminUserIds[account] |-> Users[AdminUserIds[account][i]]]

getAdminsForAccount(account) ==
  LET adminUsers == [i \in DOMAIN AdminUserIds[account] |-> Users[AdminUserIds[account][i]]]
  IN  IF env = "production"
        THEN adminUsers
        ELSE SelectSeq(adminUsers, isInternalUser)

\* models.Expense.findOne({order: [['createdAt', 'DESC']], where}): the
\* matching row created last, none when nothing matches.
NoExpense == [id |-> 0, createdAt |-> 0, FromCollectiveId |-> 0, UserId |-> NoUser]

\* The lookup without its condition on the requester.
latestExpenseOf_AnyRequester(account, userIds) ==
  LET matching == {e \in expenses : e.FromCollectiveId = account}
  IN  IF matching = {}
        THEN NoExpense
        ELSE CHOOSE e \in matching : \A f \in matching : f.createdAt <= e.createdAt

latestExpenseOf(account, userIds) ==
  LET matching == {e \in expenses : e.FromCollectiveId = account /\ e.UserId \in userIds}
  IN  IF matching = {}
        THEN NoExpense
        ELSE CHOOSE e \in matching : \A f \in matching : f.createdAt <= e.createdAt

\* adminUsers.find(u => u.id === id)
findUser(adminUsers, id) ==
  LET hits == {i \in DOMAIN adminUsers : adminUsers[i].id = id}
  IN  IF hits = {} THEN NoUserRecord ELSE adminUsers[Min(hits)]

\* The requester of the latest expense of the account, admin or not.
getMainAdminToContact_AnyRequester(account, adminUsers) ==
  LET latestExpense == latestExpenseOf_AnyRequester(account, {})
  IN  IF Len(adminUsers) > 1 /\ latestExpense # NoExpense
        THEN Users[latestExpense.UserId]
        ELSE IF Len(adminUsers) = 0 THEN NoUserRecord ELSE adminUsers[1]

getMainAdminToContact(account, adminUsers) ==
  LET latestExpense ==
        IF Len(adminUsers) > 1
          THEN latestExpenseOf(account, {adminUsers[i].id : i \in DOMAIN adminUsers})
          ELSE NoExpense
      mainUser ==
        IF latestExpense # NoExpense
          THEN findUser(adminUsers, latestExpense.UserId)
          ELSE NoUserRecord
  IN  IF Len(adminUsers) > 1 /\ mainUser # NoUserRecord
        THEN mainUser
        ELSE IF Len(adminUsers) = 0 THEN NoUserRecord ELSE adminUsers[1]

(***************************************************************************)
(* The initial state: empty tables, nothing running.                       *)
(***************************************************************************)
NoSave == [requestStatus |-> "", data |-> EmptyData]

IdleFlow ==
  [account |-> 0, year |-> 0, adminUsers |-> <<>>, mainUser |-> NoUserRecord,
   instance |-> NoInstance, document |-> NoDocument, documentLink |-> NoLink,
   error |-> NoError, save |-> NoSave,
   \* bookkeeping of what happened in the invocation
   failed |-> "none", linkFailed |-> FALSE, linkFetches |-> 0, creates |-> 0, sends |-> 0,
   outcome |-> "none"]

\* Expense rows of the flow specifications: an expense of admin 3 of account
\* 10, then one of admin 2, then one of user 4, who is no admin.
ExpenseFixture ==
  { [id |-> 1, createdAt |-> 1, FromCollectiveId |-> 10, UserId |-> 3],
    [id |-> 2, createdAt |-> 2, FromCollectiveId |-> 10, UserId |-> 2],
    [id |-> 3, createdAt |-> 3, FromCollectiveId |-> 10, UserId |-> 4] }

\* Expense tables of the contact-resolution specification: at each creation
\* time at most one row, from either account, requested by any user.
ExpenseRows(t) ==
  {[id |-> t, createdAt |-> t, FromCollectiveId |-> a, UserId |-> u] : a \in {10, 102}, u \in UserIds}
ExpenseTables ==
  LET rows == UNION {ExpenseRows(t) : t \in 1..MaxExpenses}
  IN  {table \in SUBSET rows :
         \A r1 \in table, r2 \in table : r1.createdAt = r2.createdAt => r1 = r2}

Init ==
  /\ env \in {"production", "staging"}
  /\ expenses = ExpenseFixture
  /\ legalDocuments = <<>>
  /\ instances = {}
  /\ emails = {}
  /\ queue = {}
  /\ batchYear = 2019
  /\ pc = [p \in Procs |-> "idle"]
  /\ flow = [p \in Procs |-> IdleFlow]
  /\ call = NoCall

Idle(p) == pc[p] \in {"idle", "done"}

(***************************************************************************)
(* sendHelloWorksUsTaxForm, one action per awaited call.                   *)
(***************************************************************************)
\* Lines 116-130: the admins are loaded and the contact is chosen; without a
\* contact the function logs and returns.
ResolveContact(p, account, year) ==
  LET adminUsers == getAdminsForAccount(account)
      mainUser == getMainAdminToContact(account, adminUsers)
      started == [IdleFlow EXCEPT !.account = account, !.year = year,
                                  !.adminUsers = adminUsers, !.mainUser = mainUser]
  IN  /\ Idle(p)
      /\ IF mainUser = NoUserRecord
           THEN /\ flow' = [flow EXCEPT ![p] = [started EXCEPT !.outcome = "skipped"]]
                /\ pc' = [pc EXCEPT ![p] = "done"]
           ELSE /\ flow' = [flow EXCEPT ![p] = started]
                /\ pc' = [pc EXCEPT ![p] = "createInstance"]
      /\ UNCHANGED <<call, env, expenses, legalDocuments, instances, emails>>

\* The catch block with the error's message lost.
catchError_NoMessage(f, site) ==
  [f EXCEPT !.error = ErrorAt(site),
            !.failed = site,
            !.save = [requestStatus |-> LEGAL_DOCUMENT_REQUEST_STATUS.ERROR,
                      data |-> [k \in {KeyError} |-> [message |-> "", stack |-> ErrorAt(site).stack]]]]

\* Lines 175-182: the catch block binds the error thrown at `site` and calls
\* saveDocumentStatus with status ERROR and the error's message and stack.
catchError(f, site) ==
  [f EXCEPT !.error = ErrorAt(site),
            !.failed = site,
            !.save = [requestStatus |-> LEGAL_DOCUMENT_REQUEST_STATUS.ERROR,
                      data |-> [k \in {KeyError} |->
                                  [message |-> ErrorAt(site).message,
                                   stack |-> ErrorAt(site).stack]]]]

\* createInstance called again after it threw.
CreateInstance_Retried(p) ==
  /\ pc[p] = "createInstance"
  /\ \/ /\ Cardinality(instances) < MaxInstances
        /\ LET instance == NewInstance(Cardinality(instances) + 1)
           IN  /\ instances' = instances \cup
                     {[id |-> instance.id,
                       participant |-> flow[p].mainUser.email,
                       accountId |-> flow[p].account,
                       userId |-> flow[p].mainUser.id,
                       email |-> flow[p].mainUser.email,
                       year |-> flow[p].year]}
               /\ flow' = [flow EXCEPT ![p].instance = instance,
                                       ![p].creates = @ + 1,
                                       ![p].save =
                                         [requestStatus |-> LEGAL_DOCUMENT_REQUEST_STATUS.REQUESTED,
                                          data |-> [k \in {KeyInstance} |-> instance]]]
               /\ pc' = [pc EXCEPT ![p] = "findOrCreate"]
     \/ /\ flow' = [flow EXCEPT ![p].creates = @ + 1]
        /\ pc' = pc
        /\ UNCHANGED instances
  /\ UNCHANGED <<call, env, expenses, legalDocuments, emails, queue, batchYear>>

\* Lines 133-152: client.workflowInstances.createInstance returns a new
\* instance, which is then saved with status REQUESTED, or throws.
CreateInstance(p) ==
  /\ pc[p] = "createInstance"
  /\ \/ /\ Cardinality(instances) < MaxInstances
        /\ LET instance == NewInstance(Cardinality(instances) + 1)
           IN  /\ instances' = instances \cup
                     {[id |-> instance.id,
                       participant |-> flow[p].mainUser.email,
                       accountId |-> flow[p].account,
                       userId |-> flow[p].mainUser.id,
                       email |-> flow[p].mainUser.email,
                       year |-> flow[p].year]}
               /\ flow' = [flow EXCEPT ![p].instance = instance,
                                       ![p].creates = @ + 1,
                                       ![p].save =
                                         [requestStatus |-> LEGAL_DOCUMENT_REQUEST_STATUS.REQUESTED,
                                          data |-> [k \in {KeyInstance} |-> instance]]]
               /\ pc' = [pc EXCEPT ![p] = "findOrCreate"]
     \/ /\ flow' = [flow EXCEPT ![p] = catchError([@ EXCEPT !.creates = @ + 1], "createInstance")]
        /\ pc' = [pc EXCEPT ![p] = "findOrCreate"]
        /\ UNCHANGED instances
  /\ UNCHANGED <<call, env, expenses, legalDocuments, emails, queue, batchYear>>

(***************************************************************************)
(* saveDocumentStatus: LegalDocument.findOrCreate, then doc.update.        *)
(***************************************************************************)
\* The rows matching the `where` of line 103.
findDocuments(account, year) ==
  {i \in DOMAIN legalDocuments :
     /\ legalDocuments[i].documentType = LEGAL_DOCUMENT_TYPE.US_TAX_FORM
     /\ legalDocuments[i].year = year
     /\ legalDocuments[i].CollectiveId = account}

\* A table without the unique key.
uniqueYearTypeCollective_None(rows, row) == TRUE

\* The table's unique key on (year, documentType, CollectiveId): whether the
\* storage layer accepts the insertion of `row`.
uniqueYearTypeCollective(rows, row) ==
  \A i \in DOMAIN rows :
    ~ /\ rows[i].year = row.year
      /\ rows[i].documentType = row.documentType
      /\ rows[i].CollectiveId = row.CollectiveId

\* The row findOrCreate inserts: the `where` values and the column defaults.
defaultDocument(account, year) ==
  [documentType |-> LEGAL_DOCUMENT_TYPE.US_TAX_FORM, year |-> year, CollectiveId |-> account,
   requestStatus |-> LEGAL_DOCUMENT_REQUEST_STATUS.NOT_REQUESTED, data |-> EmptyData]

\* findOrCreate, the lookup: the row is found, or is to be created; inside
\* the try block the storage call may also throw. The save made by the catch
\* block is taken to succeed: nothing in the function handles its failure.
FindOrCreateFind(p) ==
  /\ pc[p] = "findOrCreate"
  /\ LET found == findDocuments(flow[p].account, flow[p].year)
     IN  \/ /\ found # {}
            /\ flow' = [flow EXCEPT ![p].document = [id |-> Min(found), data |-> legalDocuments[Min(found)].data]]
            /\ pc' = [pc EXCEPT ![p] = "update"]
         \/ /\ found = {}
            /\ flow' = flow
            /\ pc' = [pc EXCEPT ![p] = "create"]
         \/ /\ flow[p].save.requestStatus = LEGAL_DOCUMENT_REQUEST_STATUS.REQUESTED
            /\ flow' = [flow EXCEPT ![p] = catchError(@, "saveDocumentStatus")]
            /\ pc' = [pc EXCEPT ![p] = "findOrCreate"]
  /\ UNCHANGED <<call, env, expenses, legalDocuments, instances, emails, queue, batchYear>>

\* findOrCreate, the insertion: refused by the unique key when another
\* invocation inserted the row in between, and then that row is returned.
FindOrCreateCreate(p) ==
  /\ pc[p] = "create"
  /\ LET row == defaultDocument(flow[p].account, flow[p].year)
     IN  IF uniqueYearTypeCollective(legalDocuments, row)
           THEN /\ legalDocuments' = Append(legalDocuments, row)
                /\ flow' = [flow EXCEPT ![p].document = [id |-> Len(legalDocuments) + 1, data |-> row.data]]
           ELSE /\ legalDocuments' = legalDocuments
                /\ flow' = [flow EXCEPT ![p].document =
                              [id |-> Min(findDocuments(flow[p].account, flow[p].year)),
                               data |-> legalDocuments[Min(findDocuments(flow[p].account, flow[p].year))].data]]
  /\ pc' = [pc EXCEPT ![p] = "update"]
  /\ UNCHANGED <<call, env, expenses, instances, emails, queue, batchYear>>

\* The update with the data left out: doc.update({ requestStatus }).
updateDocument_StatusOnly(doc, requestStatus, data) ==
  [doc EXCEPT !.requestStatus = requestStatus]

\* doc.update({ requestStatus, data }) of line 105: the new values of the row.
updateDocument(doc, requestStatus, data) ==
  [doc EXCEPT !.requestStatus = requestStatus, !.data = data]

\* Line 105, and what follows the call: after the REQUESTED save, lines
\* 155-156 take the first step and its url; after the ERROR save the
\* function returns the document.
UpdateDocument(p) ==
  /\ pc[p] = "update"
  /\ LET id == flow[p].document.id
         row == updateDocument(legalDocuments[id], flow[p].save.requestStatus, flow[p].save.data)
     IN  /\ legalDocuments' = [legalDocuments EXCEPT ![id] = row]
         /\ IF flow[p].save.requestStatus = LEGAL_DOCUMENT_REQUEST_STATUS.REQUESTED
              THEN /\ flow' = [flow EXCEPT ![p].document = [id |-> id, data |-> row.data],
                                           ![p].documentLink = flow[p].instance.steps[1].url]
                   /\ pc' = [pc EXCEPT ![p] = "getLink"]
              ELSE /\ flow' = [flow EXCEPT ![p].document = [id |-> id, data |-> row.data],
                                           ![p].outcome = "error"]
                   /\ pc' = [pc EXCEPT ![p] = "done"]
  /\ UNCHANGED <<call, env, expenses, instances, emails, queue, batchYear>>

(***************************************************************************)
(* The link, its storage and the email.                                    *)
(***************************************************************************)
\* The link fetch without its own try/catch: a failure reaches the catch block.
GetAuthenticatedLink_Fatal(p) ==
  /\ pc[p] = "getLink"
  /\ \/ /\ flow' = [flow EXCEPT ![p].documentLink = AuthenticatedLink(flow[p].instance.id),
                                ![p].linkFetches = @ + 1]
        /\ pc' = [pc EXCEPT ![p] = "updateLink"]
     \/ /\ flow' = [flow EXCEPT ![p] = catchError([@ EXCEPT !.linkFailed = TRUE, !.linkFetches = @ + 1],
                                                  "getAuthenticatedLinkForStep")]
        /\ pc' = [pc EXCEPT ![p] = "findOrCreate"]
  /\ UNCHANGED <<call, env, expenses, legalDocuments, instances, emails, queue, batchYear>>

\* Lines 157-165: getAuthenticatedLinkForStep returns the authenticated link,
\* or throws and the url of the step is kept.
GetAuthenticatedLink(p) ==
  /\ pc[p] = "getLink"
  /\ \/ flow' = [flow EXCEPT ![p].documentLink = AuthenticatedLink(flow[p].instance.id),
                             ![p].linkFetches = @ + 1]
     \/ flow' = [flow EXCEPT ![p].linkFailed = TRUE,
                             ![p].linkFetches = @ + 1]
  /\ pc' = [pc EXCEPT ![p] = "updateLink"]
  /\ UNCHANGED <<call, env, expenses, legalDocuments, instances, emails, queue, batchYear>>

\* The link stored without the merge: { helloWorks: { documentLink } } alone.
linkData_NotMerged(document, documentLink) ==
  [k \in {KeyDocumentLink} |-> documentLink]

\* Line 168: the data of the document held by the invocation, with the link
\* merged into it.
linkData(document, documentLink) ==
  deepMerge(document.data, [k \in {KeyDocumentLink} |-> documentLink])

\* The email sent before the link is written: the update that follows it
\* writes the row, or throws into the catch block.
UpdateLink_AfterSend(p) ==
  /\ pc[p] = "updateLink"
  /\ emails' = emails \cup
       {[template |-> "tax-form-request",
         to |-> flow[p].mainUser.email,
         documentLink |-> flow[p].documentLink,
         accountId |-> flow[p].account,
         year |-> flow[p].year]}
  /\ \/ LET id == flow[p].document.id
            data == linkData(flow[p].document, flow[p].documentLink)
        IN  /\ legalDocuments' = [legalDocuments EXCEPT ![id].data = data]
            /\ flow' = [flow EXCEPT ![p].document.data = data, ![p].outcome = "sent",
                                    ![p].sends = @ + 1]
            /\ pc' = [pc EXCEPT ![p] = "done"]
     \/ /\ flow' = [flow EXCEPT ![p] = catchError([@ EXCEPT !.sends = @ + 1], "document.update")]
        /\ pc' = [pc EXCEPT ![p] = "findOrCreate"]
        /\ UNCHANGED legalDocuments
  /\ UNCHANGED <<call, env, expenses, instances, queue, batchYear>>

\* Line 168: document.update({ data }) writes the row the invocation holds,
\* or throws.
UpdateLink(p) ==
  /\ pc[p] = "updateLink"
  /\ \/ LET id == flow[p].document.id
            data == linkData(flow[p].document, flow[p].documentLink)
        IN  /\ legalDocuments' = [legalDocuments EXCEPT ![id].data = data]
            /\ flow' = [flow EXCEPT ![p].document.data = data]
            /\ pc' = [pc EXCEPT ![p] = "send"]
     \/ /\ flow' = [flow EXCEPT ![p] = catchError(@, "document.update")]
        /\ pc' = [pc EXCEPT ![p] = "findOrCreate"]
        /\ UNCHANGED legalDocuments
  /\ UNCHANGED <<call, env, expenses, instances, emails, queue, batchYear>>

\* Lines 171-174: `return emailLib.send(...)`. The promise is returned without
\* being awaited: when send throws while being called the catch block runs,
\* when the promise it returned rejects the rejection is the caller's.
SendEmail(p) ==
  /\ pc[p] = "send"
  /\ \/ /\ emails' = emails \cup
              {[template |-> "tax-form-request",
                to |-> flow[p].mainUser.email,
                documentLink |-> flow[p].documentLink,
                accountId |-> flow[p].account,
                year |-> flow[p].year]}
        /\ flow' = [flow EXCEPT ![p].outcome = "sent", ![p].sends = @ + 1]
        /\ pc' = [pc EXCEPT ![p] = "done"]
     \/ /\ flow' = [flow EXCEPT ![p] = catchError([@ EXCEPT !.sends = @ + 1], "emailLib.send")]
        /\ pc' = [pc EXCEPT ![p] = "findOrCreate"]
        /\ UNCHANGED emails
     \/ /\ flow' = [flow EXCEPT ![p].failed = "emailLib.send", ![p].outcome = "rejected",
                                ![p].sends = @ + 1]
        /\ pc' = [pc EXCEPT ![p] = "done"]
        /\ UNCHANGED emails
  /\ UNCHANGED <<call, env, expenses, legalDocuments, instances, queue, batchYear>>

(***************************************************************************)
(* The callers: a batch pass over the eligible accounts, one account after *)
(* the other (Spec), and direct invocations that may overlap               *)
(* (SpecConcurrent).                                                       *)
(***************************************************************************)
\* A pass starts: the accounts of findAccountsThatNeedToBeSentTaxForm(year),
\* for whatever ids the aggregation query returns.
StartPass(year, collectiveIds) ==
  /\ \A p \in Procs : Idle(p)
  /\ queue = {}
  /\ queue' = findAccountsThatNeedToBeSentTaxForm(collectiveIds, year)
  /\ batchYear' = year
  /\ UNCHANGED <<call, env, expenses, legalDocuments, instances, emails, pc, flow>>

\* The pass awaits the flow of one account before it starts the next.
ProcessNext(account) ==
  /\ \A p \in Procs : Idle(p)
  /\ account \in queue
  /\ queue' = queue \ {account}
  /\ batchYear' = batchYear
  /\ ResolveContact(1, account, batchYear)

\* A direct call of sendHelloWorksUsTaxForm, whatever else is running; each
\* caller calls once.
Invoke(p, account, year) ==
  /\ pc[p] = "idle"
  /\ ResolveContact(p, account, year)
  /\ UNCHANGED <<queue, batchYear>>

Step(p) ==
  \/ CreateInstance(p)
  \/ FindOrCreateFind(p)
  \/ FindOrCreateCreate(p)
  \/ UpdateDocument(p)
  \/ GetAuthenticatedLink(p)
  \/ UpdateLink(p)
  \/ SendEmail(p)

Next ==
  \/ \E year \in Years : \E collectiveIds \in SUBSET PayoutAccounts[year] : StartPass(year, collectiveIds)
  \/ \E account \in AccountIds : ProcessNext(account)
  \/ \E p \in Procs : Step(p)

Spec == Init /\ [][Next]_vars

NextConcurrent ==
  \/ \E p \in Procs, year \in Years : \E account \in PayoutAccounts[year] : Invoke(p, account, year)
  \/ \E p \in Procs : Step(p)

SpecConcurrent == Init /\ [][NextConcurrent]_vars

\* Contact resolution alone, over every expense table.
InitContact ==
  /\ env \in {"production", "staging"}
  /\ expenses \in ExpenseTables
  /\ legalDocuments = <<>>
  /\ instances = {}
  /\ emails = {}
  /\ queue = {}
  /\ batchYear = 2019
  /\ pc = [p \in Procs |-> "idle"]
  /\ flow = [p \in Procs |-> IdleFlow]
  /\ call = NoCall

NextContact ==
  \E p \in Procs, year \in Years : \E account \in PayoutAccounts[year] : Invoke(p, account, year)

SpecContact == InitContact /\ [][NextContact]_vars

\* The provider's callback, outside this file: the contact who was sent the
\* link signs, and the document of the request goes from REQUESTED to
\* RECEIVED.
ReceiveDocument(i) ==
  /\ legalDocuments[i].requestStatus = LEGAL_DOCUMENT_REQUEST_STATUS.REQUESTED
  /\ KeyDocumentLink \in DOMAIN legalDocuments[i].data
  /\ \E e \in emails : e.documentLink = legalDocuments[i].data[KeyDocumentLink]
  /\ legalDocuments' =
       [legalDocuments EXCEPT ![i].requestStatus = LEGAL_DOCUMENT_REQUEST_STATUS.RECEIVED]
  /\ UNCHANGED <<call, env, expenses, instances, emails, queue, batchYear, pc, flow>>

\* Batch passes, with signatures coming in.
NextReceived ==
  \/ \E year \in Years : \E collectiveIds \in SUBSET PayoutAccounts[year] : StartPass(year, collectiveIds)
  \/ \E account \in AccountIds : ProcessNext(account)
  \/ \E p \in Procs : Step(p)
  \/ \E i \in DOMAIN legalDocuments : ReceiveDocument(i)

SpecReceived == Init /\ [][NextReceived]_vars

\* One call of findAccountsThatNeedToBeSentTaxForm observed at any moment of
\* the flows: the ids the aggregation query gave, whether the load was
\* issued, and the accounts returned.
FindAccounts(year, collectiveIds) ==
  /\ call = NoCall
  /\ call' = [fn |-> "findAccountsThatNeedToBeSentTaxForm",
              year |-> year,
              collectiveIds |-> collectiveIds,
              findAll |-> CollectiveFindAllIsCalled(collectiveIds),
              result |-> findAccountsThatNeedToBeSentTaxForm(collectiveIds, year)]
  /\ UNCHANGED <<env, expenses, legalDocuments, instances, emails, queue, batchYear, pc, flow>>

NextQuery ==
  \/ \E p \in Procs, year \in Years : \E account \in PayoutAccounts[year] :
       call = NoCall /\ Invoke(p, account, year)
  \/ \E p \in Procs : call = NoCall /\ Step(p)
  \/ \E year \in Years : \E collectiveIds \in SUBSET PayoutAccounts[year] :
       FindAccounts(year, collectiveIds)

SpecQuery == Init /\ [][NextQuery]_vars

(***************************************************************************)
(* The pure functions: amountsRequireTaxForm and generateParticipantName,  *)
(* each called once on inputs drawn from bounded sets (SpecPure).          *)
(***************************************************************************)
\* The cutoffs of ../constants/tax-form: a general one, and a lower one for
\* PayPal.
US_TAX_FORM_THRESHOLD == 6
US_TAX_FORM_THRESHOLD_FOR_PAYPAL == 4

\* The amounts the function is called with go from 0 to MaxAmount.
MaxAmount == 9

\* The function with each total compared to the other total's cutoff.
amountsRequireTaxForm_Swapped(paypalTotal, otherTotal) ==
  paypalTotal >= US_TAX_FORM_THRESHOLD \/ otherTotal >= US_TAX_FORM_THRESHOLD_FOR_PAYPAL

\* Lines 186-188.
amountsRequireTaxForm(paypalTotal, otherTotal) ==
  otherTotal >= US_TAX_FORM_THRESHOLD \/ paypalTotal >= US_TAX_FORM_THRESHOLD_FOR_PAYPAL

\* Strings are sequences of characters.
Text(n, c) == [i \in 1..n |-> c]

\* lodash's truncate(string, { length }): a longer string is cut so that,
\* with the omission "..." appended, it has exactly `length` characters.
Omission == <<".", ".", ".">>

truncate(string, length) ==
  IF Len(string) <= length
    THEN string
    ELSE SubSeq(string, 1, length - Len(Omission)) \o Omission

\* The limits of lines 91, 94 and 97.
ParticipantNameLength == 64
ParticipantPartLength == 30

\* The longest name, legal name or slug the function is called with.
MaxNameLength == 80

\* The function with the whole limit given to each part of the composite.
generateParticipantName_WholeLimitPerPart(account, mainUser) ==
  IF account.legalName # <<>>
    THEN truncate(account.legalName, ParticipantNameLength)
    ELSE IF account.id = mainUser.collective.id
      THEN truncate(account.name, ParticipantNameLength)
      ELSE truncate(account.slug, ParticipantNameLength) \o <<" ", "(">>
             \o truncate(mainUser.collective.name, ParticipantNameLength) \o <<")">>

\* Lines 88-99.
generateParticipantName(account, mainUser) ==
  IF account.legalName # <<>>
    THEN truncate(account.legalName, ParticipantNameLength)
    ELSE IF account.id = mainUser.collective.id
      THEN truncate(account.name, ParticipantNameLength)
      ELSE truncate(account.slug, ParticipantPartLength) \o <<" ", "(">>
             \o truncate(mainUser.collective.name, ParticipantPartLength) \o <<")">>

\* The lengths of the strings the function is called with: around each
\* limit, and up to MaxNameLength.
NameLengths ==
  {0, ParticipantPartLength - 1, ParticipantPartLength, ParticipantPartLength + 1,
   ParticipantNameLength, ParticipantNameLength + 1, MaxNameLength}

AmountCalls ==
  [fn : {"amountsRequireTaxForm"},
   paypalTotal : 0..MaxAmount,
   otherTotal : 0..MaxAmount,
   returned : {FALSE},
   result : {FALSE}]

\* An account, and a contact whose profile is the account or another one.
NameCalls ==
  {[fn |-> "generateParticipantName",
    account |-> [id |-> 10, legalName |-> Text(l, "L"), name |-> Text(n, "N"), slug |-> Text(s, "s")],
    mainUser |-> [collective |-> [id |-> id, name |-> Text(c, "c")]],
    returned |-> FALSE,
    result |-> <<>>] :
     l \in NameLengths, n \in NameLengths, s \in NameLengths, c \in NameLengths, id \in {10, 101}}

InitPure ==
  /\ env = "production"
  /\ expenses = ExpenseFixture
  /\ legalDocuments = <<>>
  /\ instances = {}
  /\ emails = {}
  /\ queue = {}
  /\ batchYear = 2019
  /\ pc = [p \in Procs |-> "idle"]
  /\ flow = [p \in Procs |-> IdleFlow]
  /\ call \in AmountCalls \cup NameCalls

AmountsRequireTaxForm ==
  /\ call.fn = "amountsRequireTaxForm"
  /\ ~call.returned
  /\ call' = [call EXCEPT !.returned = TRUE,
                          !.result = amountsRequireTaxForm(call.paypalTotal, call.otherTotal)]
  /\ UNCHANGED <<env, expenses, legalDocuments, instances, emails, queue, batchYear, pc, flow>>

GenerateParticipantName ==
  /\ call.fn = "generateParticipantName"
  /\ ~call.returned
  /\ call' = [call EXCEPT !.returned = TRUE,
                          !.result = generateParticipantName(call.account, call.mainUser)]
  /\ UNCHANGED <<env, expenses, legalDocuments, instances, emails, queue, batchYear, pc, flow>>

NextPure ==
  \/ AmountsRequireTaxForm
  \/ GenerateParticipantName

SpecPure == InitPure /\ [][NextPure]_vars

(***************************************************************************)
(* Properties.                                                             *)
(***************************************************************************)
\* The rows of the document of an invocation's account and year.
documentsOfFlow(p) == findDocuments(flow[p].account, flow[p].year)

hasStatus(i, requestStatus) == legalDocuments[i].requestStatus = requestStatus

hasErrorMessage(i, message) ==
  /\ KeyError \in DOMAIN legalDocuments[i].data
  /\ legalDocuments[i].data[KeyError].message = message

\* C1: once the contact is resolved, every failing step (createInstance, the
\* REQUESTED save, the link update, emailLib.send, by throwing or by
\* rejecting) ends with the document of the account and year in status ERROR,
\* holding the message of the error.
C1_EveryFailureEndsInError ==
  \A p \in Procs :
    (pc[p] = "done" /\ flow[p].failed # "none") =>
      \E i \in documentsOfFlow(p) :
        /\ hasStatus(i, LEGAL_DOCUMENT_REQUEST_STATUS.ERROR)
        /\ hasErrorMessage(i, ErrorAt(flow[p].failed).message)

\* C2: saveDocumentStatus merges the data it is given into the data of the
\* row: no key of the data of a row is ever lost by a step.
C2_SavedDataIsMerged ==
  [][\A i \in DOMAIN legalDocuments :
       \A k \in DOMAIN legalDocuments[i].data : k \in DOMAIN legalDocuments'[i].data]_vars

\* C3: when createInstance throws, the invocation fetches no link and sends
\* no email, heads for the ERROR save, and ends with the document in status
\* ERROR holding the message of the error thrown.
C3_CreateInstanceFailure ==
  \A p \in Procs :
    flow[p].failed = "createInstance" =>
      /\ flow[p].linkFetches = 0
      /\ flow[p].sends = 0
      /\ flow[p].instance = NoInstance
      /\ pc[p] \in {"findOrCreate", "create", "update", "done"}
      /\ pc[p] = "done" =>
           /\ flow[p].outcome = "error"
           /\ \E i \in documentsOfFlow(p) :
                /\ hasStatus(i, LEGAL_DOCUMENT_REQUEST_STATUS.ERROR)
                /\ hasErrorMessage(i, flow[p].error.message)
                /\ flow[p].error.message = ErrorAt("createInstance").message

C3_Witness ==
  \E p \in Procs :
    /\ pc[p] = "done"
    /\ flow[p].failed = "createInstance"
    /\ flow[p].creates = 1

\* C4: while the authenticated link is being fetched, and right after, the
\* document of the account and year is in status REQUESTED and holds the
\* instance just created.
C4_RequestedSavedBeforeLink ==
  \A p \in Procs :
    pc[p] \in {"getLink", "updateLink"} =>
      \E i \in documentsOfFlow(p) :
        /\ hasStatus(i, LEGAL_DOCUMENT_REQUEST_STATUS.REQUESTED)
        /\ KeyInstance \in DOMAIN legalDocuments[i].data
        /\ legalDocuments[i].data[KeyInstance] = flow[p].instance
        /\ flow[p].instance # NoInstance

C4_Witness ==
  \E p \in Procs :
    /\ pc[p] = "updateLink"
    /\ flow[p].linkFetches = 1
    /\ flow[p].instance.id = 2

\* The status of the document of an account and year, when it has one.
isRequested(account, year) ==
  \E i \in findDocuments(account, year) : hasStatus(i, LEGAL_DOCUMENT_REQUEST_STATUS.REQUESTED)

emailsOf(account, year) == {e \in emails : e.accountId = account /\ e.year = year}
instancesOf(account, year) == {w \in instances : w.accountId = account /\ w.year = year}

C6_OneDocumentPerAccountAndYear ==
  \A i \in DOMAIN legalDocuments : \A j \in DOMAIN legalDocuments :
    (/\ legalDocuments[i].CollectiveId = legalDocuments[j].CollectiveId
     /\ legalDocuments[i].year = legalDocuments[j].year
     /\ legalDocuments[i].documentType = legalDocuments[j].documentType) => i = j

\* Two overlapping invocations for the same account and year both found no
\* row; one has inserted it and has saved, the other is about to insert.
C6_Witness ==
  \E p \in Procs : \E q \in Procs \ {p} :
    /\ flow[p].account = flow[q].account
    /\ flow[p].year = flow[q].year
    /\ pc[p] = "create"
    /\ pc[q] = "done"
    /\ flow[q].outcome = "error"
    /\ flow[p].save.requestStatus = LEGAL_DOCUMENT_REQUEST_STATUS.REQUESTED
    /\ documentsOfFlow(p) # {}

\* C7: after a failure of getAuthenticatedLinkForStep the flow goes on with
\* the url of the first step: the only failures the invocation can still meet
\* are those of later steps, the link stored and the link sent are that url,
\* and short of a later failure the document stays REQUESTED.
C7_LinkFailureIsNotFatal ==
  \A p \in Procs :
    flow[p].linkFailed =>
      /\ flow[p].documentLink = flow[p].instance.steps[1].url
      /\ flow[p].failed \in {"none", "document.update", "emailLib.send"}
      /\ flow[p].failed = "none" =>
           /\ pc[p] \in {"updateLink", "send", "done"}
           /\ hasStatus(flow[p].document.id, LEGAL_DOCUMENT_REQUEST_STATUS.REQUESTED)
           /\ pc[p] \in {"send", "done"} =>
                /\ KeyDocumentLink \in DOMAIN legalDocuments[flow[p].document.id].data
                /\ legalDocuments[flow[p].document.id].data[KeyDocumentLink]
                     = flow[p].instance.steps[1].url
           /\ pc[p] = "done" =>
                /\ flow[p].outcome = "sent"
                /\ \E e \in emails :
                     /\ e.to = flow[p].mainUser.email
                     /\ e.documentLink = flow[p].instance.steps[1].url

C7_Witness ==
  \E p \in Procs :
    /\ flow[p].linkFailed
    /\ pc[p] = "done"
    /\ flow[p].outcome = "sent"

\* No admin of the account is left by the filter of getAdminsForAccount.
noAdminRemains(account) ==
  \/ AdminUserIds[account] = <<>>
  \/ /\ env # "production"
     /\ \A i \in DOMAIN AdminUserIds[account] : ~ isEmailInternal(Users[AdminUserIds[account][i]].email)

\* C8: for an account without a remaining admin the invocation ends at once,
\* skipped and without error; the step creates no instance, sends no email
\* and leaves every LegalDocument row as it is.
C8_NoContactNoEffect ==
  /\ [](\A p \in Procs :
          (pc[p] # "idle" /\ noAdminRemains(flow[p].account)) =>
            /\ pc[p] = "done"
            /\ flow[p].outcome = "skipped"
            /\ flow[p].failed = "none"
            /\ flow[p].creates = 0
            /\ flow[p].sends = 0)
  /\ [][\A p \in Procs :
          (/\ pc'[p] # "idle"
           /\ noAdminRemains(flow'[p].account)
           /\ \/ flow'[p] # flow[p]
              \/ pc'[p] # pc[p]) =>
            /\ legalDocuments' = legalDocuments
            /\ instances' = instances
            /\ emails' = emails]_vars

\* An account whose admins are all filtered out was skipped while documents
\* of other accounts are stored.
C8_Witness ==
  \E p \in Procs :
    /\ pc[p] = "done"
    /\ flow[p].outcome = "skipped"
    /\ AdminUserIds[flow[p].account] # <<>>
    /\ legalDocuments # <<>>

\* The address is that of an admin of the account the filter lets through.
isRemainingAdminEmail(account, email) ==
  /\ \E i \in DOMAIN AdminUserIds[account] : Users[AdminUserIds[account][i]].email = email
  /\ env # "production" => isEmailInternal(email)

\* C9: the participant of every workflow instance and the recipient of every
\* email is the address of an admin of the account, and outside production
\* an internal address.
C9_ContactIsARemainingAdmin ==
  /\ \A w \in instances : isRemainingAdminEmail(w.accountId, w.participant)
  /\ \A e \in emails : isRemainingAdminEmail(e.accountId, e.to)

\* Outside production, for the account whose latest expense is one of a user
\* who is no admin and which has an admin with an external address.
C9_Witness ==
  /\ env = "staging"
  /\ \E w \in instances : w.accountId = 10
  /\ \E e \in emails : e.accountId = 10

\* The expenses paid to the account and requested by one of the given admins.
expensesOfAdmins(account, adminUsers) ==
  {e \in expenses :
     /\ e.FromCollectiveId = account
     /\ \E i \in DOMAIN adminUsers : adminUsers[i].id = e.UserId}

\* C10: with more than one remaining admin the contact is the requester of
\* the latest expense of the account requested by a remaining admin, and the
\* first remaining admin when there is no such expense.
C10_MainAdminIsLatestRequester ==
  \A p \in Procs :
    (pc[p] # "idle" /\ Len(flow[p].adminUsers) > 1) =>
      LET mine == expensesOfAdmins(flow[p].account, flow[p].adminUsers)
      IN  /\ mine = {} => flow[p].mainUser = flow[p].adminUsers[1]
          /\ \A e \in mine :
               (\A f \in mine : f.createdAt <= e.createdAt) =>
                 /\ flow[p].mainUser.id = e.UserId
                 /\ flow[p].mainUser \in Range(flow[p].adminUsers)

\* The latest expense of the account is one of a user who is not a remaining
\* admin, and the contact is not the first admin.
C10_Witness ==
  \E p \in Procs :
    /\ pc[p] # "idle"
    /\ Len(flow[p].adminUsers) > 1
    /\ flow[p].mainUser # flow[p].adminUsers[1]
    /\ \E e \in expenses :
         /\ e.FromCollectiveId = flow[p].account
         /\ e \notin expensesOfAdmins(flow[p].account, flow[p].adminUsers)
         /\ \A f \in expensesOfAdmins(flow[p].account, flow[p].adminUsers) :
              f.createdAt < e.createdAt

\* C11: an account whose document of a year is in status ERROR is returned
\* by the eligibility query for that year when it is a candidate, and the
\* step that brings the account's document to REQUESTED writes the row that
\* was in status ERROR, without adding a row.
C11_ErrorIsRequestedAgain ==
  /\ [](\A year \in Years : \A account \in AccountIds :
          (\E i \in findDocuments(account, year) : hasStatus(i, LEGAL_DOCUMENT_REQUEST_STATUS.ERROR)) =>
            \A collectiveIds \in SUBSET AccountIds :
              account \in collectiveIds =>
                account \in findAccountsThatNeedToBeSentTaxForm(collectiveIds, year))
  /\ [][\A i \in DOMAIN legalDocuments :
          (/\ hasStatus(i, LEGAL_DOCUMENT_REQUEST_STATUS.ERROR)
           /\ \E j \in DOMAIN legalDocuments' :
                /\ legalDocuments'[j].CollectiveId = legalDocuments[i].CollectiveId
                /\ legalDocuments'[j].year = legalDocuments[i].year
                /\ legalDocuments'[j].requestStatus = LEGAL_DOCUMENT_REQUEST_STATUS.REQUESTED) =>
            /\ Len(legalDocuments') = Len(legalDocuments)
            /\ legalDocuments'[i].requestStatus = LEGAL_DOCUMENT_REQUEST_STATUS.REQUESTED]_vars

\* A second flow of an account whose first flow ended in ERROR has sent its
\* email, and the account has the one row, in status REQUESTED.
C11_Witness ==
  \E p \in Procs :
    /\ pc[p] = "done"
    /\ flow[p].outcome = "sent"
    /\ Cardinality(instancesOf(flow[p].account, flow[p].year)) = 2
    /\ Cardinality(legalDocumentsOf(flow[p].account, flow[p].year)) = 1
    /\ isRequested(flow[p].account, flow[p].year)

\* C12: once the link is written, and through the sending of the email, the
\* document holds both the instance saved with REQUESTED and the link.
C12_LinkKeepsInstance ==
  \A p \in Procs :
    (\/ pc[p] = "send"
     \/ pc[p] = "done" /\ flow[p].outcome \in {"sent", "rejected"}) =>
      LET data == legalDocuments[flow[p].document.id].data
      IN  /\ KeyInstance \in DOMAIN data
          /\ data[KeyInstance] = flow[p].instance
          /\ flow[p].instance # NoInstance
          /\ KeyDocumentLink \in DOMAIN data
          /\ data[KeyDocumentLink] = flow[p].documentLink

C12_Witness ==
  \E p \in Procs :
    /\ pc[p] = "done"
    /\ flow[p].outcome = "sent"
    /\ flow[p].documentLink = AuthenticatedLink(flow[p].instance.id)

\* C13: the accounts returned are exactly the ids given that have no row for
\* the year, or a row for the year that shouldBeRequested() accepts.
C13_ExactlyTheEligibleCandidates ==
  call.fn = "findAccountsThatNeedToBeSentTaxForm" =>
    \A account \in AccountIds :
      account \in call.result <=>
        /\ account \in call.collectiveIds
        /\ LET rows == {i \in DOMAIN legalDocuments :
                          /\ legalDocuments[i].CollectiveId = account
                          /\ legalDocuments[i].year = call.year}
           IN  \/ rows = {}
               \/ \E i \in rows : shouldBeRequested(legalDocuments[i])

\* A call that returned a candidate whose document is in status ERROR and
\* left out a candidate whose document is REQUESTED.
C13_Witness ==
  /\ call.fn = "findAccountsThatNeedToBeSentTaxForm"
  /\ \E a \in call.result :
       \E i \in legalDocumentsOf(a, call.year) : hasStatus(i, LEGAL_DOCUMENT_REQUEST_STATUS.ERROR)
  /\ \E b \in call.collectiveIds \ call.result : isRequested(b, call.year)

\* C16: with no candidate id the call returns the empty collection, and
\* models.Collective.findAll is not called.
C16_NoCandidateNoLoad ==
  (call.fn = "findAccountsThatNeedToBeSentTaxForm" /\ call.collectiveIds = {}) =>
    /\ call.result = {}
    /\ ~call.findAll

\* A call without candidates, made when the year has a document that would
\* be requested again.
C16_Witness ==
  /\ call.fn = "findAccountsThatNeedToBeSentTaxForm"
  /\ call.collectiveIds = {}
  /\ \E i \in DOMAIN legalDocuments :
       /\ legalDocuments[i].year = call.year
       /\ shouldBeRequested(legalDocuments[i])

\* C14: amountsRequireTaxForm is true exactly when the other total reaches
\* the general cutoff or the PayPal total reaches PayPal's: false with both
\* totals one unit below their cutoffs, true when one total alone reaches its
\* cutoff.
C14_EitherCutoffRequiresTheForm ==
  (call.fn = "amountsRequireTaxForm" /\ call.returned) =>
    /\ call.result <=>
         \/ ~(call.otherTotal < US_TAX_FORM_THRESHOLD)
         \/ ~(call.paypalTotal < US_TAX_FORM_THRESHOLD_FOR_PAYPAL)
    /\ (/\ call.otherTotal = US_TAX_FORM_THRESHOLD - 1
        /\ call.paypalTotal = US_TAX_FORM_THRESHOLD_FOR_PAYPAL - 1) => ~call.result
    /\ (call.otherTotal = US_TAX_FORM_THRESHOLD /\ call.paypalTotal = 0) => call.result
    /\ (call.otherTotal = 0 /\ call.paypalTotal = US_TAX_FORM_THRESHOLD_FOR_PAYPAL) => call.result

\* The PayPal total alone reached its cutoff, below the general one.
C14_Witness ==
  /\ call.fn = "amountsRequireTaxForm"
  /\ call.returned
  /\ call.result
  /\ call.otherTotal = 0
  /\ call.paypalTotal = US_TAX_FORM_THRESHOLD_FOR_PAYPAL

\* `short` is `string` cut to at most `length` characters: the string itself
\* when it fits, else `length` characters that start as the string does.
isTruncatedTo(short, string, length) ==
  IF Len(string) <= length
    THEN short = string
    ELSE /\ Len(short) = length
         /\ \A i \in 1..(length - Len(Omission)) : short[i] = string[i]

\* C15: the participant name has at most 64 characters: the legal name cut to
\* 64 when there is one; else the account's name cut to 64 when the account
\* is the contact's profile; else "<slug> (<name>)", the slug and the
\* contact's name each cut to 30.
C15_ParticipantNameIsBounded ==
  (call.fn = "generateParticipantName" /\ call.returned) =>
    LET account == call.account
        contact == call.mainUser.collective
        name == call.result
        k == IF Len(account.slug) <= ParticipantPartLength
               THEN Len(account.slug) ELSE ParticipantPartLength
    IN  /\ Len(name) <= ParticipantNameLength
        /\ IF account.legalName # <<>>
             THEN isTruncatedTo(name, account.legalName, ParticipantNameLength)
             ELSE IF account.id = contact.id
               THEN isTruncatedTo(name, account.name, ParticipantNameLength)
               ELSE /\ Len(name) >= k + 3
                    /\ isTruncatedTo(SubSeq(name, 1, k), account.slug, ParticipantPartLength)
                    /\ SubSeq(name, k + 1, k + 2) = <<" ", "(">>
                    /\ isTruncatedTo(SubSeq(name, k + 3, Len(name) - 1), contact.name, ParticipantPartLength)
                    /\ name[Len(name)] = ")"

\* A composite name made of a slug and a contact name both over their limit.
C15_Witness ==
  /\ call.fn = "generateParticipantName"
  /\ call.returned
  /\ call.account.legalName = <<>>
  /\ call.account.id # call.mainUser.collective.id
  /\ Len(call.account.slug) > ParticipantPartLength
  /\ Len(call.mainUser.collective.name) > ParticipantPartLength
  /\ Len(call.result) = 2 * ParticipantPartLength + 3

\* The emails delivered with a link to the instance of an invocation.
emailsOfFlow(p) ==
  {e \in emails : flow[p].instance # NoInstance /\ e.documentLink.instanceId = flow[p].instance.id}

\* C17: when an invocation has ended, a document in status ERROR means that
\* the invocation delivered no email, and an email it delivered means that
\* the document is in status REQUESTED and holds the link that was sent.
C17_NoEmailWithError ==
  \A p \in Procs :
    pc[p] = "done" =>
      /\ (\E i \in documentsOfFlow(p) : hasStatus(i, LEGAL_DOCUMENT_REQUEST_STATUS.ERROR)) =>
           emailsOfFlow(p) = {}
      /\ \A e \in emailsOfFlow(p) :
           \E i \in documentsOfFlow(p) :
             /\ hasStatus(i, LEGAL_DOCUMENT_REQUEST_STATUS.REQUESTED)
             /\ KeyDocumentLink \in DOMAIN legalDocuments[i].data
             /\ legalDocuments[i].data[KeyDocumentLink] = e.documentLink

\* emailLib.send threw after the link was written: the document is in status
\* ERROR and no email went out.
C17_Witness ==
  \E p \in Procs :
    /\ pc[p] = "done"
    /\ flow[p].failed = "emailLib.send"
    /\ flow[p].outcome = "error"
    /\ flow[p].instance # NoInstance
    /\ emailsOfFlow(p) = {}
    /\ \E i \in documentsOfFlow(p) : hasStatus(i, LEGAL_DOCUMENT_REQUEST_STATUS.ERROR)

\* C18: an invocation calls createInstance at most once and emailLib.send at
\* most once; when it calls emailLib.send, createInstance has returned its
\* instance, the link was fetched, and the document is in status REQUESTED
\* with the instance and the link; every email goes to the participant of
\* the instance it links to.
C18_OneInstanceOneEmailInOrder ==
  /\ \A p \in Procs :
       /\ flow[p].creates <= 1
       /\ flow[p].sends <= 1
       /\ Cardinality(emailsOfFlow(p)) <= 1
       /\ (pc[p] = "send" \/ flow[p].sends = 1) =>
            /\ flow[p].creates = 1
            /\ flow[p].linkFetches = 1
            /\ \E w \in instances : w.id = flow[p].instance.id
       /\ pc[p] = "send" =>
            \E i \in documentsOfFlow(p) :
              /\ hasStatus(i, LEGAL_DOCUMENT_REQUEST_STATUS.REQUESTED)
              /\ KeyInstance \in DOMAIN legalDocuments[i].data
              /\ KeyDocumentLink \in DOMAIN legalDocuments[i].data
              /\ legalDocuments[i].data[KeyDocumentLink] = flow[p].documentLink
  /\ \A e \in emails :
       \E w \in instances :
         /\ w.id = e.documentLink.instanceId
         /\ w.participant = e.to
         /\ w.accountId = e.accountId

\* An invocation that made its one call of createInstance and delivered its
\* one email to the participant.
C18_Witness ==
  \E p \in Procs :
    /\ pc[p] = "done"
    /\ flow[p].creates = 1
    /\ flow[p].sends = 1
    /\ \E e \in emailsOfFlow(p) : e.to = flow[p].mainUser.email

\* A step of the provider's callback on row i.
isReceiveStep(i) ==
  /\ pc' = pc
  /\ flow' = flow
  /\ hasStatus(i, LEGAL_DOCUMENT_REQUEST_STATUS.REQUESTED)
  /\ legalDocuments'[i] =
       [legalDocuments[i] EXCEPT !.requestStatus = LEGAL_DOCUMENT_REQUEST_STATUS.RECEIVED]

=============================================================================
